---- MODULE Spec2Model ----
(* A model of django-tmapi's topic map facade (tmapi/models/topic_map.py),   *)
(* its Topic (tmapi/models/topic.py) and its Association                      *)
(* (tmapi/models/association.py).  The relational store is modelled as one    *)
(* table per Django model; every method that writes is one action, every      *)
(* query an operator over the tables.                                         *)
EXTENDS Naturals, Sequences, FiniteSets

VARIABLES
    topic_constructs,      \* Topic table: pk |-> the topic map the topic is in
    subject_identifiers,   \* SubjectIdentifier table: rows [topic, address]
    subject_locators,      \* SubjectLocator table: rows [topic, address]
    item_identifiers,      \* ItemIdentifier table joined with its owner:
                           \*   rows [address, containing_topic_map, kind, id]
    association_constructs,\* Association table: rows [type, topic_map]
    association_scope,     \* Association.scope many-to-many: pairs <<association, theme>>
    roles,                 \* Role table: rows [association, type, player, topic_map]
    types,                 \* Topic.types many-to-many: pairs <<topic, type>>
    names,                 \* Name table: pk |-> row [topic, value, topic_map, type, scope]
    occurrences,           \* Occurrence table: rows [type, value, datatype, topic, topic_map]
    variants,              \* Variant table: rows [name, value, datatype, scope]
    reified,               \* the reified_* back-references of the topic asked by get_reified
    callers,               \* concurrent callers of create_topic_by_*: their position and locals
    last                   \* the last call: [op, self, args, result, effect, repeat]

valued == <<names, occurrences, variants, reified>>
db == <<topic_constructs, subject_identifiers, subject_locators, item_identifiers,
        association_constructs, association_scope, roles, types, valued>>
identity == <<topic_constructs, subject_identifiers, subject_locators, item_identifiers>>
graph == <<association_constructs, association_scope, roles, types>>
vars == <<topic_constructs, subject_identifiers, subject_locators, item_identifiers,
          association_constructs, association_scope, roles, types,
          names, occurrences, variants, reified, callers, last>>

----------------------------------------------------------------------------
(* Bounds and value universes *)

MaxTopics == 2
MaxAssociations == 1
MaxRoles == 1
MaxScope == 2
MaxNames == 2
MaxOccurrences == 1
MaxVariants == 1

TopicMaps == {"tm1", "tm2"}
References == {"a", "b"}

(* Python values are tagged records, so that None, a Locator, a Topic and a   *)
(* raised exception can be compared with one another.                         *)
None == [tag |-> "None"]
Raised(exception) == [tag |-> exception]
ModelConstraintException == Raised("ModelConstraintException")
DoesNotExist == Raised("DoesNotExist")
MultipleObjectsReturned == Raised("MultipleObjectsReturned")
TopicRef(t) == [tag |-> "Topic", id |-> t]
IsTopic(v) == v.tag = "Topic"
List(items) == [tag |-> "list", items |-> items]

create_locator(reference) == [tag |-> "Locator", reference |-> reference]
Locators == {create_locator(r) : r \in References}
to_external_form(locator) == locator.reference

\* Text values, and the values of names.
String(text) == [tag |-> "str", text |-> text]
NameValues == {String("TMAPI Name"), String("A name")}

\* The subject identifier of the default name type.
TopicNamePSI == "http://psi.topicmaps.org/iso13250/model/topic-name"

\* The back-references get_reified probes, in its order; a topic that reifies
\* nothing has none of them.
reifiable_types ==
    <<"reified_association", "reified_name", "reified_occurrence",
      "reified_role", "reified_topicmap", "reified_variant">>
ReifiableTypes == {reifiable_types[i] : i \in DOMAIN reifiable_types}
NoReified == [t \in ReifiableTypes |-> DoesNotExist]

\* The concurrent callers, and a caller that has not called yet.
Callers == {"c1", "c2"}

Idle == [pc |-> "idle", op |-> "none", self |-> "none", arg |-> None,
         topic |-> None, result |-> None]

Topics == DOMAIN topic_constructs
TopicsOf(m) == {t \in Topics : topic_constructs[t] = m}

----------------------------------------------------------------------------
(* Queries: self.topic_constructs.get(<relation>__address=reference)          *)

\* A table is a multiset of rows: an entry is a row with its number among the
\* equal rows saved before it (the primary key, up to the order of unequal rows).
\* A save that updates: the row takes the place of the rows with its address.
Save_moving(table, row) ==
    {e \in table : e.row.address # row.address} \cup {[row |-> row, n |-> 1]}

Save(table, row) ==
    table \cup {[row |-> row, n |-> Cardinality({e \in table : e.row = row}) + 1]}

\* The join of this map's topics with an identifier table, filtered by address:
\* one pair <<entry, topic>> per matching row, so that a topic matched by two rows
\* is selected twice, as in the SQL join.
JoinRows(table, m, reference) ==
    {<<e, e.row.topic>> : e \in {x \in table :
        x.row.address = reference /\ x.row.topic \in TopicsOf(m)}}

ItemIdentifierJoinRows(m, reference) ==
    {<<e, e.row.id>> : e \in {x \in item_identifiers :
        /\ x.row.address = reference
        /\ x.row.kind = "Topic"
        /\ x.row.id \in TopicsOf(m)}}

\* QuerySet.get: the one object, DoesNotExist for none, MultipleObjectsReturned
\* for more than one joined row.
QuerySetGet(selected) ==
    IF selected = {} THEN DoesNotExist
    ELSE IF Cardinality(selected) = 1 THEN TopicRef((CHOOSE r \in selected : TRUE)[2])
    ELSE MultipleObjectsReturned

get_subject_identifiers__address(m, reference) ==
    QuerySetGet(JoinRows(subject_identifiers, m, reference))

get_subject_locators__address_wrong_table(m, reference) ==
    get_subject_identifiers__address(m, reference)

get_subject_locators__address(m, reference) ==
    QuerySetGet(JoinRows(subject_locators, m, reference))

get_item_identifiers__address_wrong_table(m, reference) ==
    get_subject_locators__address(m, reference)

get_item_identifiers__address(m, reference) ==
    QuerySetGet(ItemIdentifierJoinRows(m, reference))

\* The identifier values a topic owns, per namespace.
AddressesOf(table, t) ==
    {e.row.address : e \in {x \in table : x.row.topic = t}}
ItemAddressesOf(table, t) ==
    {e.row.address : e \in {x \in table : x.row.kind = "Topic" /\ x.row.id = t}}
SubjectIdentifiersOf(t) == AddressesOf(subject_identifiers, t)
SubjectLocatorsOf(t) == AddressesOf(subject_locators, t)
ItemIdentifiersOf(t) == ItemAddressesOf(item_identifiers, t)

----------------------------------------------------------------------------
(* Rows *)

SubjectIdentifier_without_address(topic, address) == [topic |-> topic, address |-> ""]

SubjectIdentifier(topic, address) == [topic |-> topic, address |-> address]
SubjectLocator(topic, address) == [topic |-> topic, address |-> address]
ItemIdentifier(address, containing_topic_map, kind, id) ==
    [address |-> address, containing_topic_map |-> containing_topic_map,
     kind |-> kind, id |-> id]

\* What a call did, recorded with its result.
Call(op, self, args, result, effect) ==
    [op |-> op, self |-> self, args |-> args, result |-> result, effect |-> effect,
     repeat |-> last.op = op /\ last.self = self /\ last.args = args]

NewTopic == Len(topic_constructs) + 1

\* An exception leaves the call: nothing was written before it.
Raise(op, self, args, exception) ==
    /\ last' = Call(op, self, args, exception, "none")
    /\ UNCHANGED <<db, callers>>

\* The call returns what it found and writes nothing.
Return(op, self, args, result) ==
    /\ last' = Call(op, self, args, result, "none")
    /\ UNCHANGED <<db, callers>>

----------------------------------------------------------------------------
(* TopicMap *)

create_topic(m) ==
    /\ Len(topic_constructs) < MaxTopics
    /\ topic_constructs' = Append(topic_constructs, m)
    /\ last' = Call("create_topic", m, <<>>, TopicRef(NewTopic), "created")
    /\ UNCHANGED <<subject_identifiers, subject_locators, item_identifiers, graph, callers, valued>>

create_topic_by_item_identifier(m, item_identifier) ==
    LET op == "create_topic_by_item_identifier"
        args == <<item_identifier>>
    IN
    IF item_identifier = None THEN Raise(op, m, args, ModelConstraintException)
    ELSE
    LET reference == to_external_form(item_identifier)
        byII == get_item_identifiers__address(m, reference)
        bySI == get_subject_identifiers__address(m, reference)
    IN
    IF IsTopic(byII) THEN Return(op, m, args, byII)
    ELSE IF byII = MultipleObjectsReturned THEN Raise(op, m, args, byII)
    ELSE IF bySI = MultipleObjectsReturned THEN Raise(op, m, args, bySI)
    ELSE
    LET create == bySI = DoesNotExist
        topic == IF create THEN NewTopic ELSE bySI.id
    IN  /\ create => Len(topic_constructs) < MaxTopics
        /\ topic_constructs' = IF create THEN Append(topic_constructs, m)
                                         ELSE topic_constructs
        /\ item_identifiers' =
              Save(item_identifiers, ItemIdentifier(reference, m, "Topic", topic))
        /\ last' = Call(op, m, args, TopicRef(topic),
                        IF create THEN "created" ELSE "bound")
        /\ UNCHANGED <<subject_identifiers, subject_locators, graph, callers, valued>>

create_topic_by_subject_identifier(m, subject_identifier) ==
    LET op == "create_topic_by_subject_identifier"
        args == <<subject_identifier>>
    IN
    IF subject_identifier = None THEN Raise(op, m, args, ModelConstraintException)
    ELSE
    LET reference == to_external_form(subject_identifier)
        bySI == get_subject_identifiers__address(m, reference)
        byII == get_item_identifiers__address(m, reference)
    IN
    IF IsTopic(bySI) THEN Return(op, m, args, bySI)
    ELSE IF bySI = MultipleObjectsReturned THEN Raise(op, m, args, bySI)
    ELSE IF byII = MultipleObjectsReturned THEN Raise(op, m, args, byII)
    ELSE
    LET create == byII = DoesNotExist
        topic == IF create THEN NewTopic ELSE byII.id
    IN  /\ create => Len(topic_constructs) < MaxTopics
        /\ topic_constructs' = IF create THEN Append(topic_constructs, m)
                                         ELSE topic_constructs
        /\ subject_identifiers' =
              Save(subject_identifiers, SubjectIdentifier(topic, reference))
        /\ last' = Call(op, m, args, TopicRef(topic),
                        IF create THEN "created" ELSE "bound")
        /\ UNCHANGED <<subject_locators, item_identifiers, graph, callers, valued>>

\* Lines 170-180: the lookup and, when it finds nothing, the creation.
find_or_create_by_subject_locator(m, subject_locator) ==
    LET op == "create_topic_by_subject_locator"
        args == <<subject_locator>>
        reference == to_external_form(subject_locator)
        bySL == get_subject_locators__address(m, reference)
    IN
    IF IsTopic(bySL) THEN Return(op, m, args, bySL)
    ELSE IF bySL = MultipleObjectsReturned THEN Raise(op, m, args, bySL)
    ELSE
        /\ Len(topic_constructs) < MaxTopics
        /\ topic_constructs' = Append(topic_constructs, m)
        /\ subject_locators' =
              Save(subject_locators, SubjectLocator(NewTopic, reference))
        /\ last' = Call(op, m, args, TopicRef(NewTopic), "created")
        /\ UNCHANGED <<subject_identifiers, item_identifiers, graph, callers, valued>>

\* The method without its test for None: None has no to_external_form.
create_topic_by_subject_locator_unchecked(m, subject_locator) ==
    IF subject_locator = None
    THEN Raise("create_topic_by_subject_locator", m, <<subject_locator>>,
               Raised("AttributeError"))
    ELSE find_or_create_by_subject_locator(m, subject_locator)

create_topic_by_subject_locator(m, subject_locator) ==
    IF subject_locator = None
    THEN Raise("create_topic_by_subject_locator", m, <<subject_locator>>,
               ModelConstraintException)
    ELSE find_or_create_by_subject_locator(m, subject_locator)

----------------------------------------------------------------------------
(* TopicMap.get_topic_by_subject_identifier, get_topic_by_subject_locator,    *)
(* get_construct_by_item_identifier: queries, they write nothing              *)

\* The method without its except clause.
get_topic_by_subject_identifier_uncaught(m, subject_identifier) ==
    get_subject_identifiers__address(m, to_external_form(subject_identifier))

get_topic_by_subject_identifier(m, subject_identifier) ==
    LET reference == to_external_form(subject_identifier)
        topic == get_subject_identifiers__address(m, reference)
    IN  IF topic = DoesNotExist THEN None ELSE topic

get_topic_by_subject_locator(m, subject_locator) ==
    LET reference == to_external_form(subject_locator)
        topic == get_subject_locators__address(m, reference)
    IN  IF topic = DoesNotExist THEN None ELSE topic

\* ItemIdentifier.get_construct is not in the sources at hand: the construct
\* that owns the item identifier.
get_construct(ii) ==
    IF ii.row.kind = "Topic" THEN TopicRef(ii.row.id)
    ELSE [tag |-> ii.row.kind, id |-> ii.row.containing_topic_map]

get_construct_by_item_identifier(m, item_identifier) ==
    LET address == to_external_form(item_identifier)
        found == {ii \in item_identifiers :
                     ii.row.address = address /\ ii.row.containing_topic_map = m}
    IN  IF found = {} THEN None
        ELSE IF Cardinality(found) = 1 THEN get_construct(CHOOSE ii \in found : TRUE)
        ELSE MultipleObjectsReturned

----------------------------------------------------------------------------
(* Item identifiers of the topic map itself (TopicMap.item_identifiers).  The *)
(* method that adds one is not in the sources at hand; it is modelled from    *)
(* the specification: an item identifier is bound to a construct only when no *)
(* construct of the map owns it.                                              *)

ItemIdentifierOwned(m, reference) ==
    \E e \in item_identifiers :
        /\ e.row.containing_topic_map = m
        /\ e.row.address = reference

add_item_identifier(m, item_identifier) ==
    LET reference == to_external_form(item_identifier)
    IN  /\ ~ItemIdentifierOwned(m, reference)
        /\ item_identifiers' =
              Save(item_identifiers, ItemIdentifier(reference, m, "TopicMap", 0))
        /\ last' = Call("add_item_identifier", m, <<item_identifier>>, None, "bound")
        /\ UNCHANGED <<topic_constructs, subject_identifiers, subject_locators,
                       graph, callers, valued>>

----------------------------------------------------------------------------
(* Specification of the identity operations, each call one step *)

NoCall == [op |-> "none", self |-> "none", args |-> <<>>, result |-> None,
           effect |-> "none", repeat |-> FALSE]

Init ==
    /\ topic_constructs = <<>>
    /\ subject_identifiers = {}
    /\ subject_locators = {}
    /\ item_identifiers = {}
    /\ association_constructs = {}
    /\ association_scope = {}
    /\ roles = {}
    /\ types = {}
    /\ names = <<>>
    /\ occurrences = {}
    /\ variants = {}
    /\ reified = NoReified
    /\ callers = [c \in Callers |-> Idle]
    /\ last = NoCall

Arguments == Locators \cup {None}

Next ==
    \/ \E m \in TopicMaps : create_topic(m)
    \/ \E m \in TopicMaps, l \in Arguments : create_topic_by_item_identifier(m, l)
    \/ \E m \in TopicMaps, l \in Arguments : create_topic_by_subject_identifier(m, l)
    \/ \E m \in TopicMaps, l \in Arguments : create_topic_by_subject_locator(m, l)

Spec == Init /\ [][Next]_vars

\* The identity operations on a map whose own item identifiers are set as well.
NextItemIdentifiers ==
    \/ \E m \in TopicMaps : create_topic(m)
    \/ \E m \in TopicMaps, l \in Arguments : create_topic_by_item_identifier(m, l)
    \/ \E m \in TopicMaps, l \in Arguments : create_topic_by_subject_identifier(m, l)
    \/ \E m \in TopicMaps, l \in Arguments : create_topic_by_subject_locator(m, l)
    \/ \E m \in TopicMaps, l \in Locators : add_item_identifier(m, l)

SpecItemIdentifiers == Init /\ [][NextItemIdentifiers]_vars

----------------------------------------------------------------------------
(* TopicMap.create_association and Association.create_role *)

Association(type, topic_map) == [type |-> type, topic_map |-> topic_map]
Role(association, type, player, topic_map) ==
    [association |-> association, type |-> type, player |-> player,
     topic_map |-> topic_map]

\* The entry Save adds for a row.
Saved(table, row) == CHOOSE e \in Save(table, row) : e \notin table

\* The loop left after its first theme.
scope_add_first(themes, scope) ==
    IF scope = <<>> THEN themes ELSE themes \cup {Head(scope)}

\* for topic in scope: association.scope.add(topic)
RECURSIVE scope_add(_, _)
scope_add(themes, scope) ==
    IF scope = <<>> THEN themes
    ELSE scope_add(themes \cup {Head(scope)}, Tail(scope))

ScopeOf(association) ==
    {link[2] : link \in {l \in association_scope : l[1] = association}}

create_association(m, association_type, scope) ==
    LET op == "create_association"
        args == <<association_type, scope>>
    IN
    IF association_type = None THEN Raise(op, m, args, ModelConstraintException)
    ELSE
    LET association == Saved(association_constructs, Association(association_type, m))
        themes == scope_add({}, IF scope = None THEN <<>> ELSE scope.items)
    IN  /\ Cardinality(association_constructs) < MaxAssociations
        /\ association_constructs' = association_constructs \cup {association}
        /\ association_scope' =
              association_scope \cup {<<association, theme>> : theme \in themes}
        /\ last' = Call(op, m, args, [tag |-> "Association", id |-> association],
                        "created")
        /\ UNCHANGED <<identity, roles, types, callers, valued>>

\* Lines 28-31: the role is saved and returned.
save_role(association, role_type, player) ==
    LET role == Saved(roles, Role(association, role_type, player,
                                  association.row.topic_map))
    IN  /\ Cardinality(roles) < MaxRoles
        /\ roles' = roles \cup {role}
        /\ last' = Call("create_role", association, <<role_type, player>>,
                        [tag |-> "Role", id |-> role], "created")
        /\ UNCHANGED <<identity, association_constructs, association_scope, types,
                       callers, valued>>

\* The method with "and" for "or" in its test for None.
create_role_both_none(association, role_type, player) ==
    IF role_type = None /\ player = None
    THEN Raise("create_role", association, <<role_type, player>>,
               ModelConstraintException)
    ELSE save_role(association, role_type, player)

create_role(association, role_type, player) ==
    IF role_type = None \/ player = None
    THEN Raise("create_role", association, <<role_type, player>>,
               ModelConstraintException)
    ELSE save_role(association, role_type, player)

get_roles(association) == {r \in roles : r.row.association = association}

----------------------------------------------------------------------------
(* Topic.get_roles_played *)

QuerySet(rows) == [tag |-> "QuerySet", rows |-> rows]

\* self.role_players: the roles whose player is the topic
role_players(topic) == {r \in roles : r.row.player = TopicRef(topic)}

\* The method without its branch for an association type given alone.
get_roles_played_all(topic, role_type, association_type) ==
    IF role_type # None
    THEN QuerySet({r \in role_players(topic) : r.row.type.id = role_type.id})
    ELSE QuerySet(role_players(topic))

get_roles_played(topic, role_type, association_type) ==
    IF role_type # None
    THEN LET by_type == {r \in role_players(topic) : r.row.type.id = role_type.id}
         IN  IF association_type # None
             THEN \* roles.filter(): a filter with no condition
                  QuerySet({r \in by_type : TRUE})
             ELSE QuerySet(by_type)
    ELSE IF association_type # None
    THEN Raised("Exception")
    ELSE QuerySet(role_players(topic))

----------------------------------------------------------------------------
(* Topic.add_type, Topic.get_types, Topic.remove_type *)

TypesOf(links, topic) == {link[2] : link \in {l \in links : l[1] = topic}}

get_types(topic) == TypesOf(types, topic)

\* The test left out: every type is accepted.
other_topic_map_unchecked(topic, type) == FALSE

\* self.topic_map != type.topic_map
other_topic_map(topic, type) == topic_constructs[topic] # topic_constructs[type.id]

add_type(topic, type) ==
    IF type = None
    THEN \* None has no topic_map
         Raise("add_type", topic, <<type>>, Raised("AttributeError"))
    ELSE IF other_topic_map(topic, type)
    THEN Raise("add_type", topic, <<type>>, ModelConstraintException)
    ELSE /\ types' = types \cup {<<topic, type.id>>}
         /\ last' = Call("add_type", topic, <<type>>, None, "added")
         /\ UNCHANGED <<identity, association_constructs, association_scope, roles,
                        callers, valued>>

remove_type(topic, topic_type) ==
    /\ types' = types \ {<<topic, topic_type.id>>}
    /\ last' = Call("remove_type", topic, <<topic_type>>, None, "removed")
    /\ UNCHANGED <<identity, association_constructs, association_scope, roles, callers, valued>>

----------------------------------------------------------------------------
(* Specifications of the structural operations *)

TopicArguments == {TopicRef(t) : t \in Topics} \cup {None}

\* The structural operations on one topic map, with the scope left out or empty.
GraphTopicMaps == {"tm1"}
NoScopeArguments == {None, List(<<>>)}

NextGraph ==
    \/ \E m \in GraphTopicMaps : create_topic(m)
    \/ \E m \in GraphTopicMaps, type \in TopicArguments, scope \in NoScopeArguments :
          create_association(m, type, scope)
    \/ \E a \in association_constructs, type \in TopicArguments, player \in TopicArguments :
          create_role(a, type, player)

SpecGraph == Init /\ [][NextGraph]_vars

\* Associations created with a list of themes, a theme possibly more than once.
Lists(items) == UNION {[1..n -> items] : n \in 0..MaxScope}
ScopeArguments == {None} \cup {List(scope) : scope \in Lists(TopicArguments \ {None})}

NextScope ==
    \/ \E m \in GraphTopicMaps : create_topic(m)
    \/ \E m \in GraphTopicMaps, type \in TopicArguments, scope \in ScopeArguments :
          create_association(m, type, scope)

SpecScope == Init /\ [][NextScope]_vars

NextTypes ==
    \/ \E m \in TopicMaps : create_topic(m)
    \/ \E t \in Topics, type \in TopicArguments : add_type(t, type)
    \/ \E t \in Topics, type \in TopicArguments \ {None} : remove_type(t, type)

SpecTypes == Init /\ [][NextTypes]_vars

----------------------------------------------------------------------------
(* Concurrent callers of create_topic_by_subject_identifier and               *)
(* create_topic_by_item_identifier.  The methods take no lock and open no     *)
(* transaction, so each query and each save is a step of its own.             *)

At(c, op, pc) == callers[c].op = op /\ callers[c].pc = pc

Goto(c, pc, topic) ==
    callers' = [callers EXCEPT ![c].pc = pc, ![c].topic = topic]
Finish(c, result) ==
    callers' = [callers EXCEPT ![c].pc = "done", ![c].result = result]

\* The call starts: the test for None and the first query.
Enter(c, op, m, locator, first) ==
    /\ callers[c].pc = "idle"
    /\ callers' = [callers EXCEPT ![c] =
          [pc |-> IF locator = None \/ first # DoesNotExist THEN "done" ELSE "second_lookup",
           op |-> op, self |-> m, arg |-> locator, topic |-> None,
           result |-> IF locator = None THEN ModelConstraintException
                      ELSE IF first # DoesNotExist THEN first ELSE None]]
    /\ UNCHANGED <<db, last>>

\* The second query: the topic found, DoesNotExist (a topic is to be saved), or
\* MultipleObjectsReturned, which leaves the call.
SecondLookup(c, second) ==
    /\ IF IsTopic(second) THEN Goto(c, "bind", second)
       ELSE IF second = DoesNotExist THEN Goto(c, "save_topic", None)
       ELSE Finish(c, second)
    /\ UNCHANGED <<db, last>>

\* topic = Topic(topic_map=self); topic.save()
SaveTopic(c) ==
    /\ Len(topic_constructs) < MaxTopics
    /\ topic_constructs' = Append(topic_constructs, callers[c].self)
    /\ Goto(c, "bind", TopicRef(NewTopic))
    /\ UNCHANGED <<subject_identifiers, subject_locators, item_identifiers, graph, valued, last>>

subject_identifier_first_lookup(c, m, subject_identifier) ==
    Enter(c, "create_topic_by_subject_identifier", m, subject_identifier,
          IF subject_identifier = None THEN None
          ELSE get_subject_identifiers__address(m, to_external_form(subject_identifier)))

subject_identifier_second_lookup(c) ==
    /\ At(c, "create_topic_by_subject_identifier", "second_lookup")
    /\ SecondLookup(c, get_item_identifiers__address(
                            callers[c].self, to_external_form(callers[c].arg)))

subject_identifier_save_topic(c) ==
    /\ At(c, "create_topic_by_subject_identifier", "save_topic")
    /\ SaveTopic(c)

subject_identifier_bind(c) ==
    /\ At(c, "create_topic_by_subject_identifier", "bind")
    /\ subject_identifiers' =
          Save(subject_identifiers,
               SubjectIdentifier(callers[c].topic.id, to_external_form(callers[c].arg)))
    /\ Finish(c, callers[c].topic)
    /\ UNCHANGED <<topic_constructs, subject_locators, item_identifiers, graph, valued, last>>

item_identifier_first_lookup(c, m, item_identifier) ==
    Enter(c, "create_topic_by_item_identifier", m, item_identifier,
          IF item_identifier = None THEN None
          ELSE get_item_identifiers__address(m, to_external_form(item_identifier)))

item_identifier_second_lookup(c) ==
    /\ At(c, "create_topic_by_item_identifier", "second_lookup")
    /\ SecondLookup(c, get_subject_identifiers__address(
                            callers[c].self, to_external_form(callers[c].arg)))

item_identifier_save_topic(c) ==
    /\ At(c, "create_topic_by_item_identifier", "save_topic")
    /\ SaveTopic(c)

item_identifier_bind(c) ==
    /\ At(c, "create_topic_by_item_identifier", "bind")
    /\ item_identifiers' =
          Save(item_identifiers,
               ItemIdentifier(to_external_form(callers[c].arg), callers[c].self,
                              "Topic", callers[c].topic.id))
    /\ Finish(c, callers[c].topic)
    /\ UNCHANGED <<topic_constructs, subject_identifiers, subject_locators, graph, valued, last>>

NextConcurrent ==
    \/ \E c \in Callers, m \in TopicMaps, l \in Arguments :
          subject_identifier_first_lookup(c, m, l)
    \/ \E c \in Callers : subject_identifier_second_lookup(c)
    \/ \E c \in Callers : subject_identifier_save_topic(c)
    \/ \E c \in Callers : subject_identifier_bind(c)
    \/ \E c \in Callers, m \in TopicMaps, l \in Arguments :
          item_identifier_first_lookup(c, m, l)
    \/ \E c \in Callers : item_identifier_second_lookup(c)
    \/ \E c \in Callers : item_identifier_save_topic(c)
    \/ \E c \in Callers : item_identifier_bind(c)

SpecConcurrent == Init /\ [][NextConcurrent]_vars

----------------------------------------------------------------------------
(* Topic.create_name, Topic.get_names; Name.remove, Name.set_value and        *)
(* Name.get_value, which are not in the sources at hand and are modelled from *)
(* the specification and from tests/models/name_tests.py                      *)

Deleted == [tag |-> "deleted"]
NameRef(name) == [tag |-> "Name", id |-> name]

Name_without_parent(topic, value, topic_map, type, scope) ==
    [topic |-> 0, value |-> value, topic_map |-> topic_map, type |-> type,
     scope |-> scope]

Name(topic, value, topic_map, type, scope) ==
    [topic |-> topic, value |-> value, topic_map |-> topic_map, type |-> type,
     scope |-> scope]

\* self.names, filtered by type when one is given
NamesOf(table, topic, name_type) ==
    {name \in DOMAIN table :
        /\ table[name] # Deleted
        /\ table[name].topic = topic
        /\ name_type # None => table[name].type = name_type}

get_names(topic, name_type) == NamesOf(names, topic, name_type)

\* What create_topic_by_subject_identifier does for a locator, as a value: the
\* topic it returns (or the exception), whether it saves a new topic and
\* whether it saves the subject identifier.  This one always saves a new topic.
resolve_always_create(m, reference) ==
    [result |-> TopicRef(NewTopic), create |-> TRUE, bind |-> TRUE]

resolve_by_subject_identifier(m, reference) ==
    LET bySI == get_subject_identifiers__address(m, reference)
        byII == get_item_identifiers__address(m, reference)
    IN  IF IsTopic(bySI) \/ bySI = MultipleObjectsReturned
        THEN [result |-> bySI, create |-> FALSE, bind |-> FALSE]
        ELSE IF byII = MultipleObjectsReturned
        THEN [result |-> byII, create |-> FALSE, bind |-> FALSE]
        ELSE IF byII = DoesNotExist
        THEN [result |-> TopicRef(NewTopic), create |-> TRUE, bind |-> TRUE]
        ELSE [result |-> byII, create |-> FALSE, bind |-> TRUE]

create_name(topic, value, type, scope) ==
    LET op == "create_name"
        args == <<value, type, scope>>
        m == topic_constructs[topic]
        omitted == type = None
        default == resolve_by_subject_identifier(m, TopicNamePSI)
        name_type == IF omitted THEN default.result ELSE type
        themes == scope_add({}, IF scope = None THEN <<>> ELSE scope.items)
    IN
    IF omitted /\ ~IsTopic(default.result) THEN Raise(op, topic, args, default.result)
    ELSE
        /\ Len(names) < MaxNames
        /\ omitted /\ default.create => Len(topic_constructs) < MaxTopics
        /\ topic_constructs' = IF omitted /\ default.create
                                  THEN Append(topic_constructs, m)
                                  ELSE topic_constructs
        /\ subject_identifiers' =
              IF omitted /\ default.bind
              THEN Save(subject_identifiers, SubjectIdentifier(name_type.id, TopicNamePSI))
              ELSE subject_identifiers
        /\ names' = Append(names, Name(topic, value, m, name_type, themes))
        /\ last' = Call(op, topic, args, NameRef(Len(names) + 1), "created")
        /\ UNCHANGED <<subject_locators, item_identifiers, graph, occurrences,
                       variants, reified, callers>>

get_value(name) == names[name].value

\* name.remove(): the name and its variants leave the store.
remove(name) ==
    /\ names[name] # Deleted
    /\ names' = [names EXCEPT ![name] = Deleted]
    /\ variants' = {v \in variants : v.row.name # name}
    /\ last' = Call("remove", name, <<>>, None, "removed")
    /\ UNCHANGED <<identity, graph, occurrences, reified, callers>>

\* set_value that stores whatever it is given.
set_value_unchecked(name, value) ==
    /\ names[name] # Deleted
    /\ names' = [names EXCEPT ![name].value = value]
    /\ last' = Call("set_value", name, <<value>>, None, "changed")
    /\ UNCHANGED <<identity, graph, occurrences, variants, reified, callers>>

set_value(name, value) ==
    /\ names[name] # Deleted
    /\ IF value = None
       THEN Raise("set_value", name, <<value>>, ModelConstraintException)
       ELSE /\ names' = [names EXCEPT ![name].value = value]
            /\ last' = Call("set_value", name, <<value>>, None,
                            IF get_value(name) = value THEN "kept" ELSE "changed")
            /\ UNCHANGED <<identity, graph, occurrences, variants, reified, callers>>

\* Names given to the topics of one map; the default name type may be there
\* already, as a topic with the subject identifier or with the item identifier.
\* A type given is the topic named itself.
TopicNameLocator == create_locator(TopicNamePSI)
CreatedNameValues == {String("Name")}

NextNames ==
    \/ \E m \in GraphTopicMaps : create_topic(m)
    \/ \E m \in GraphTopicMaps : create_topic_by_subject_identifier(m, TopicNameLocator)
    \/ \E m \in GraphTopicMaps : create_topic_by_item_identifier(m, TopicNameLocator)
    \/ \E t \in Topics, value \in CreatedNameValues, scope \in NoScopeArguments :
          \E type \in {None, TopicRef(t)} : create_name(t, value, type, scope)

SpecNames == Init /\ [][NextNames]_vars

\* Names created, given other values and removed.
NextNameValues ==
    \/ \E m \in GraphTopicMaps : create_topic(m)
    \/ \E t \in Topics, value \in CreatedNameValues, scope \in NoScopeArguments :
          \E type \in {None, TopicRef(t)} : create_name(t, value, type, scope)
    \/ \E name \in DOMAIN names : remove(name)
    \/ \E name \in DOMAIN names, value \in NameValues \cup {None} :
          set_value(name, value)

SpecNameValues == Init /\ [][NextNameValues]_vars

----------------------------------------------------------------------------
(* Topic.create_occurrence; Name.create_variant, which is not in the sources  *)
(* at hand and is modelled from the specification and from                    *)
(* tests/models/name_tests.py                                                 *)

XSD_ANY_URI == "http://www.w3.org/2001/XMLSchema#anyURI"
XSD_STRING == "http://www.w3.org/2001/XMLSchema#string"

\* isinstance(value, Locator)
isinstance_Locator(value) == value.tag = "Locator"

\* if datatype is None: ... Locator(XSD_ANY_URI) ... else: Locator(XSD_STRING)
infer_datatype(value, datatype) ==
    IF datatype = None
    THEN IF isinstance_Locator(value) THEN create_locator(XSD_ANY_URI)
                                      ELSE create_locator(XSD_STRING)
    ELSE datatype

Occurrence(type, value, datatype, topic, topic_map) ==
    [type |-> type, value |-> value, datatype |-> datatype, topic |-> topic,
     topic_map |-> topic_map]

\* The scope argument is not used by the method.
create_occurrence(topic, type, value, scope, datatype) ==
    LET occurrence ==
            Saved(occurrences,
                  Occurrence(type, value,
                             to_external_form(infer_datatype(value, datatype)),
                             topic, topic_constructs[topic]))
    IN  /\ Cardinality(occurrences) < MaxOccurrences
        /\ occurrences' = occurrences \cup {occurrence}
        /\ last' = Call("create_occurrence", topic, <<type, value, scope, datatype>>,
                        [tag |-> "Occurrence", id |-> occurrence], "created")
        /\ UNCHANGED <<identity, graph, names, variants, reified, callers>>

Variant(name, value, datatype, scope) ==
    [name |-> name, value |-> value, datatype |-> datatype, scope |-> scope]

\* The value of a variant is text: a locator is kept as its reference.
variant_value(value) ==
    IF isinstance_Locator(value) THEN String(to_external_form(value)) ELSE value

create_variant(name, value, scope, datatype) ==
    LET variant ==
            Saved(variants,
                  Variant(name, variant_value(value),
                          to_external_form(infer_datatype(value, datatype)),
                          scope_add({}, scope.items)))
    IN  /\ names[name] # Deleted
        /\ Cardinality(variants) < MaxVariants
        /\ variants' = variants \cup {variant}
        /\ last' = Call("create_variant", name, <<value, scope, datatype>>,
                        [tag |-> "Variant", id |-> variant], "created")
        /\ UNCHANGED <<identity, graph, names, occurrences, reified, callers>>

\* Occurrences and variants with a text or a locator as value, with and
\* without a datatype.
Values == {String("Variant"), create_locator("http://www.example.org/")}
Datatypes == {None, create_locator("http://www.example.org/datatype")}

NextValued ==
    \/ \E m \in GraphTopicMaps : create_topic(m)
    \/ \E t \in Topics, value \in CreatedNameValues :
          create_name(t, value, TopicRef(t), None)
    \/ \E t \in Topics, type \in TopicArguments \ {None}, value \in Values,
          scope \in NoScopeArguments, datatype \in Datatypes :
          create_occurrence(t, type, value, scope, datatype)
    \/ \E name \in DOMAIN names, value \in Values, theme \in TopicArguments \ {None},
          datatype \in Datatypes :
          create_variant(name, value, List(<<theme>>), datatype)

SpecValued == Init /\ [][NextValued]_vars

----------------------------------------------------------------------------
(* Topic.get_reified.  A back-reference of the topic yields the construct     *)
(* the topic reifies, or raises: DoesNotExist when the topic reifies no       *)
(* construct of that kind, another exception when the query itself fails.     *)

Construct(reifiable_type, id) ==
    [tag |-> "Construct", kind |-> reifiable_type, id |-> id]
IsConstruct(v) == v.tag = "Construct"
DatabaseError == Raised("DatabaseError")

\* The loop left after its first probe.
reified_first_probe(back_references) ==
    IF IsConstruct(back_references[reifiable_types[1]])
    THEN back_references[reifiable_types[1]]
    ELSE None

\* for reifiable_type in reifiable_types: try: ... break; except: pass
RECURSIVE probe(_, _)
probe(back_references, i) ==
    IF i > Len(reifiable_types) THEN None
    ELSE LET reifiable_type == reifiable_types[i]
         IN  IF IsConstruct(back_references[reifiable_type])
             THEN back_references[reifiable_type]
             ELSE probe(back_references, i + 1)

reified_construct(back_references) == probe(back_references, 1)

get_reified ==
    Return("get_reified", "topic", <<>>, reified_construct(reified))

\* The back-references of a topic: at most one yields a construct, each of the
\* others raises DoesNotExist or fails.
ReifiedStates ==
    LET Nothing == [ReifiableTypes -> {DoesNotExist, DatabaseError}]
    IN  Nothing \cup
        {[nothing EXCEPT ![t] = Construct(t, id)] :
            nothing \in Nothing, t \in ReifiableTypes, id \in 1..MaxTopics}

InitReified ==
    /\ topic_constructs = <<>>
    /\ subject_identifiers = {}
    /\ subject_locators = {}
    /\ item_identifiers = {}
    /\ association_constructs = {}
    /\ association_scope = {}
    /\ roles = {}
    /\ types = {}
    /\ names = <<>>
    /\ occurrences = {}
    /\ variants = {}
    /\ reified \in ReifiedStates
    /\ callers = [c \in Callers |-> Idle]
    /\ last = NoCall

NextReified == get_reified

SpecReified == InitReified /\ [][NextReified]_vars

----------------------------------------------------------------------------
(* Properties of the identity operations *)

CreateByOps == {"create_topic_by_item_identifier",
                "create_topic_by_subject_identifier",
                "create_topic_by_subject_locator"}

\* The step is a call of op with a locator (not None) as argument.
CalledWithLocator(op) == last'.op = op /\ last'.args[1] # None

TopicIdentifiersUnchanged(t) ==
    /\ SubjectIdentifiersOf(t)' = SubjectIdentifiersOf(t)
    /\ SubjectLocatorsOf(t)' = SubjectLocatorsOf(t)
    /\ ItemIdentifiersOf(t)' = ItemIdentifiersOf(t)

\* C1: in every reachable state no two distinct topics of one topic map share
\* a subject identifier, a subject locator or an item identifier value.
C1_UniqueIdentifiers ==
    \A t1 \in Topics, t2 \in Topics :
        (t1 # t2 /\ topic_constructs[t1] = topic_constructs[t2]) =>
            /\ SubjectIdentifiersOf(t1) \cap SubjectIdentifiersOf(t2) = {}
            /\ SubjectLocatorsOf(t1) \cap SubjectLocatorsOf(t2) = {}
            /\ ItemIdentifiersOf(t1) \cap ItemIdentifiersOf(t2) = {}

\* Two topics of one map, one owning a value in two namespaces and the other
\* owning the same value in the third.
C1_Witness ==
    \E t1 \in Topics, t2 \in Topics, r \in References :
        /\ t1 # t2 /\ topic_constructs[t1] = topic_constructs[t2]
        /\ r \in SubjectIdentifiersOf(t1) /\ r \in ItemIdentifiersOf(t1)
        /\ r \in SubjectLocatorsOf(t2)

\* C2: a call create_topic_by_subject_identifier(L) made when topic T of the
\* map owns L as item identifier returns T and creates no topic, and T then owns
\* L as subject identifier and as item identifier; the same with the two
\* namespaces exchanged.
C2_CrossIdentifierAliasing ==
    [][ /\ CalledWithLocator("create_topic_by_subject_identifier") =>
            \A t \in TopicsOf(last'.self) :
                to_external_form(last'.args[1]) \in ItemIdentifiersOf(t) =>
                    /\ last'.result = TopicRef(t)
                    /\ topic_constructs' = topic_constructs
                    /\ to_external_form(last'.args[1]) \in SubjectIdentifiersOf(t)'
                    /\ to_external_form(last'.args[1]) \in ItemIdentifiersOf(t)'
        /\ CalledWithLocator("create_topic_by_item_identifier") =>
            \A t \in TopicsOf(last'.self) :
                to_external_form(last'.args[1]) \in SubjectIdentifiersOf(t) =>
                    /\ last'.result = TopicRef(t)
                    /\ topic_constructs' = topic_constructs
                    /\ to_external_form(last'.args[1]) \in SubjectIdentifiersOf(t)'
                    /\ to_external_form(last'.args[1]) \in ItemIdentifiersOf(t)'
      ]_vars

\* The call by subject identifier has just bound L to the topic that owned it
\* as item identifier only; another topic exists, so a new one could have been made.
C2_Witness ==
    /\ last.op = "create_topic_by_subject_identifier"
    /\ last.effect = "bound"
    /\ IsTopic(last.result)
    /\ to_external_form(last.args[1]) \in SubjectIdentifiersOf(last.result.id)
    /\ to_external_form(last.args[1]) \in ItemIdentifiersOf(last.result.id)
    /\ Len(topic_constructs) < MaxTopics

\* C3: a create_topic_by_* call that repeats the call before it (same method,
\* same topic map, same locator) returns the same topic and changes nothing.
C3_Idempotent ==
    [][ (last'.repeat /\ last'.op \in CreateByOps /\ last'.args[1] # None) =>
            /\ last'.result = last.result
            /\ UNCHANGED db ]_vars

\* A repeated call has returned a topic while the bound still allowed the
\* creation of another one.
C3_Witness ==
    /\ last.repeat
    /\ last.op \in CreateByOps
    /\ IsTopic(last.result)
    /\ Len(topic_constructs) < MaxTopics

\* C6: in every reachable state an item identifier value is owned by at most
\* one construct of a topic map, whatever its kind.
C6_ItemIdentifierOneConstruct ==
    \A e1 \in item_identifiers, e2 \in item_identifiers :
        ( /\ e1.row.containing_topic_map = e2.row.containing_topic_map
          /\ e1.row.address = e2.row.address ) =>
            (e1.row.kind = e2.row.kind /\ e1.row.id = e2.row.id)

\* C7: create_topic_by_subject_locator(L) returns the topic of the map that owns
\* L as subject locator and writes nothing when there is one; otherwise it
\* returns a topic that did not exist before, whose only identifier is the
\* subject locator L, and leaves every existing topic's identifier sets as they were.
C7_SubjectLocatorNoAliasing ==
    [][ CalledWithLocator("create_topic_by_subject_locator") =>
          LET reference == to_external_form(last'.args[1])
              owners == {t \in TopicsOf(last'.self) : reference \in SubjectLocatorsOf(t)}
          IN  IF owners # {}
              THEN /\ IsTopic(last'.result) /\ last'.result.id \in owners
                   /\ UNCHANGED db
              ELSE /\ IsTopic(last'.result)
                   /\ last'.result.id \notin Topics
                   /\ DOMAIN topic_constructs' = Topics \cup {last'.result.id}
                   /\ topic_constructs'[last'.result.id] = last'.self
                   /\ AddressesOf(subject_locators', last'.result.id) = {reference}
                   /\ AddressesOf(subject_identifiers', last'.result.id) = {}
                   /\ ItemAddressesOf(item_identifiers', last'.result.id) = {}
                   /\ \A t \in Topics : TopicIdentifiersUnchanged(t)
      ]_vars

\* The call has created a topic for L although another topic of the map owns L
\* as item identifier and as subject identifier.
C7_Witness ==
    /\ last.op = "create_topic_by_subject_locator"
    /\ last.effect = "created"
    /\ \E t \in TopicsOf(last.self) :
          /\ TopicRef(t) # last.result
          /\ to_external_form(last.args[1]) \in ItemIdentifiersOf(t)
          /\ to_external_form(last.args[1]) \in SubjectIdentifiersOf(t)
          /\ to_external_form(last.args[1]) \notin SubjectLocatorsOf(t)

\* C8: a create_topic_by_* call with None for the locator raises
\* ModelConstraintException and changes nothing.
C8_NullLocatorRejected ==
    [][ (last'.op \in CreateByOps /\ last'.args[1] = None) =>
            /\ last'.result = Raised("ModelConstraintException")
            /\ UNCHANGED db ]_vars

\* The call with None has raised in a map that holds topics and identifiers.
C8_Witness ==
    /\ last.op \in CreateByOps
    /\ last.args[1] = None
    /\ last.result = Raised("ModelConstraintException")
    /\ TopicsOf(last.self) # {}
    /\ subject_locators # {}

----------------------------------------------------------------------------
(* Properties of the concurrent callers *)

BothDone(c1, op1, c2, op2) ==
    /\ c1 # c2
    /\ At(c1, op1, "done") /\ At(c2, op2, "done")
    /\ callers[c1].arg # None
    /\ callers[c1].arg = callers[c2].arg
    /\ callers[c1].self = callers[c2].self

\* C4: when two callers have run create_topic_by_subject_identifier(L)
\* concurrently on one topic map, both have got the same topic and at most one
\* topic of the map owns L as subject identifier.
C4_ConcurrentSubjectIdentifier ==
    \A c1 \in Callers, c2 \in Callers :
        BothDone(c1, "create_topic_by_subject_identifier",
                 c2, "create_topic_by_subject_identifier") =>
            /\ callers[c1].result = callers[c2].result
            /\ Cardinality({t \in TopicsOf(callers[c1].self) :
                  to_external_form(callers[c1].arg) \in SubjectIdentifiersOf(t)}) <= 1

\* C5: when create_topic_by_subject_identifier(L) and
\* create_topic_by_item_identifier(L) have run concurrently on one topic map,
\* no two distinct topics own L, one as subject identifier and the other as
\* item identifier.
C5_ConcurrentAliasing ==
    \A c1 \in Callers, c2 \in Callers :
        BothDone(c1, "create_topic_by_subject_identifier",
                 c2, "create_topic_by_item_identifier") =>
            ~ \E t1 \in TopicsOf(callers[c1].self), t2 \in TopicsOf(callers[c1].self) :
                /\ t1 # t2
                /\ to_external_form(callers[c1].arg) \in SubjectIdentifiersOf(t1)
                /\ to_external_form(callers[c1].arg) \in ItemIdentifiersOf(t2)

----------------------------------------------------------------------------
(* Properties of the structural operations *)

\* C9: create_association with None for the type, and create_role with None for
\* the type or for the player, raise ModelConstraintException and store
\* nothing: no association, no role.
C9_NullArgumentRejected ==
    [][ /\ (last'.op = "create_association" /\ last'.args[1] = None) =>
              /\ last'.result = Raised("ModelConstraintException")
              /\ association_constructs' = association_constructs
              /\ UNCHANGED db
        /\ (last'.op = "create_role" /\ (last'.args[1] = None \/ last'.args[2] = None)) =>
              /\ last'.result = Raised("ModelConstraintException")
              /\ roles' = roles
              /\ UNCHANGED db
      ]_vars

\* create_role with a type and no player has raised, on an association that
\* could have taken the role.
C9_Witness ==
    /\ last.op = "create_role"
    /\ last.args[1] # None /\ last.args[2] = None
    /\ last.result = Raised("ModelConstraintException")
    /\ last.self \in association_constructs
    /\ Cardinality(roles) < MaxRoles

\* C10: add_type(t) with t of another topic map raises ModelConstraintException
\* and leaves the type links as they were; with t of the topic's own map (the
\* topic itself included) it adds t to the topic's types and nothing else;
\* remove_type(t) takes t, and only t, out of the topic's types.
C10_AddTypeSameMap ==
    [][ /\ (last'.op = "add_type" /\ last'.args[1] # None) =>
              IF topic_constructs[last'.self] # topic_constructs[last'.args[1].id]
              THEN /\ last'.result = Raised("ModelConstraintException")
                   /\ UNCHANGED db
              ELSE /\ last'.result = None
                   /\ last'.args[1].id \in TypesOf(types', last'.self)
                   /\ types' = types \cup {<<last'.self, last'.args[1].id>>}
        /\ last'.op = "remove_type" =>
              /\ last'.args[1].id \notin TypesOf(types', last'.self)
              /\ types' = types \ {<<last'.self, last'.args[1].id>>}
      ]_vars

\* A topic has just been made a type of itself while a topic of another map
\* exists.
C10_Witness ==
    /\ last.op = "add_type"
    /\ last.result = None
    /\ last.self = last.args[1].id
    /\ last.self \in get_types(last.self)
    /\ \E t \in Topics : topic_constructs[t] # topic_constructs[last.self]

----------------------------------------------------------------------------
(* Topic.get_roles_played *)

\* The roles the topic plays that pass both filters, each applied when given.
RolesPlayed(topic, role_type, association_type) ==
    {r \in roles :
        /\ r.row.player = TopicRef(topic)
        /\ role_type # None => r.row.type = role_type
        /\ association_type # None => r.row.association.row.type = association_type}

\* C11: get_roles_played(role_type, association_type) returns exactly the roles
\* the topic plays whose type is role_type and whose association has type
\* association_type; with role_type alone the played roles of that type; with
\* neither all the roles the topic plays.
C11_RolesPlayedFiltered ==
    \A t \in Topics, role_type \in TopicArguments, association_type \in TopicArguments :
        (role_type = None => association_type = None)
        => get_roles_played(t, role_type, association_type)
             = QuerySet(RolesPlayed(t, role_type, association_type))

\* C12: get_roles_played with an association type and no role type fails with
\* an error and returns no roles, for every topic in every state.
C12_AssociationTypeAlone ==
    \A t \in Topics, association_type \in TopicArguments \ {None} :
        get_roles_played(t, None, association_type) = Raised("Exception")

\* A topic that plays a role is asked for its roles by association type alone.
C12_Witness ==
    \E t \in Topics, association_type \in TopicArguments \ {None} :
        /\ role_players(t) # {}
        /\ get_roles_played(t, None, association_type) = Raised("Exception")

----------------------------------------------------------------------------
(* The identifier lookups and create_topic *)

\* The topic of the map that owns the address in a namespace, None for no owner.
Owner(m, owned) ==
    IF \E t \in TopicsOf(m) : owned[t]
    THEN TopicRef(CHOOSE t \in TopicsOf(m) : owned[t])
    ELSE None

\* C17: each lookup returns the topic of this map that owns L in its
\* namespace, in particular the topic the matching create_topic_by_* call has
\* just returned for L, and None when no topic of this map owns L there.
C17_LookupsAgree ==
    /\ \A m \in TopicMaps, L \in Locators :
          /\ get_topic_by_subject_identifier(m, L) =
                Owner(m, [t \in Topics |-> L.reference \in SubjectIdentifiersOf(t)])
          /\ get_topic_by_subject_locator(m, L) =
                Owner(m, [t \in Topics |-> L.reference \in SubjectLocatorsOf(t)])
          /\ get_construct_by_item_identifier(m, L) =
                Owner(m, [t \in Topics |-> L.reference \in ItemIdentifiersOf(t)])
    /\ last.op \in CreateByOps /\ IsTopic(last.result) =>
          /\ last.op = "create_topic_by_subject_identifier" =>
                get_topic_by_subject_identifier(last.self, last.args[1]) = last.result
          /\ last.op = "create_topic_by_subject_locator" =>
                get_topic_by_subject_locator(last.self, last.args[1]) = last.result
          /\ last.op = "create_topic_by_item_identifier" =>
                get_construct_by_item_identifier(last.self, last.args[1]) = last.result

\* A topic has just been created for a subject identifier: the lookup in its
\* map finds it, the lookup in the other map and in the other namespaces does not.
C17_Witness ==
    /\ last.op = "create_topic_by_subject_identifier"
    /\ last.effect = "created"
    /\ get_topic_by_subject_identifier(last.self, last.args[1]) = last.result
    /\ \E m \in TopicMaps \ {last.self} :
          get_topic_by_subject_identifier(m, last.args[1]) = None
    /\ get_topic_by_subject_locator(last.self, last.args[1]) = None
    /\ get_construct_by_item_identifier(last.self, last.args[1]) = None

\* C18: every create_topic call adds one topic that was not there before, and
\* the new topic has an automatically generated item identifier that no other
\* construct of the map owns.
C18_CreateTopicGeneratedIdentifier ==
    [][ last'.op = "create_topic" =>
          LET topic == last'.result.id
              generated == ItemAddressesOf(item_identifiers', topic)
          IN  /\ topic \notin Topics
              /\ Len(topic_constructs') = Len(topic_constructs) + 1
              /\ topic_constructs'[topic] = last'.self
              /\ generated # {}
              /\ \A ii \in item_identifiers' :
                    /\ ii.row.address \in generated
                    /\ ii.row.containing_topic_map = last'.self
                    => ii.row.kind = "Topic" /\ ii.row.id = topic ]_vars

----------------------------------------------------------------------------
(* The scope of a new association *)

ThemesOf(links, association) == {link[2] : link \in {l \in links : l[1] = association}}
Themes(scope) ==
    IF scope = None THEN {} ELSE {scope.items[i] : i \in DOMAIN scope.items}

\* C19: create_association(type, scope) returns a new association of this topic
\* map with the type given, whose scope is exactly the set of the themes in the
\* list (empty for None or the empty list); the scopes of the other
\* associations, the topics, their identifiers and their types are unchanged.
C19_AssociationScope ==
    [][ last'.op = "create_association" /\ last'.result.tag = "Association" =>
          LET association == last'.result.id
          IN  /\ association \notin association_constructs
              /\ association_constructs' = association_constructs \cup {association}
              /\ association.row.topic_map = last'.self
              /\ association.row.type = last'.args[1]
              /\ ThemesOf(association_scope', association) = Themes(last'.args[2])
              /\ \A other \in association_constructs :
                    ThemesOf(association_scope', other) = ThemesOf(association_scope, other)
              /\ UNCHANGED <<identity, types, roles>> ]_vars

\* An association was created with a list that names one theme twice and
\* another once: its scope is the two themes.
C19_Witness ==
    /\ last.op = "create_association"
    /\ last.result.tag = "Association"
    /\ last.args[2] # None
    /\ Len(last.args[2].items) > Cardinality(Themes(last.args[2]))
    /\ ScopeOf(last.result.id) = Themes(last.args[2])
    /\ ScopeOf(last.result.id) # {}

----------------------------------------------------------------------------
(* Names *)

\* The topics of the map that own the subject identifier of the default name type.
TopicNameTypes(topics, table, m) ==
    {t \in DOMAIN topics : topics[t] = m /\ TopicNamePSI \in AddressesOf(table, t)}

\* The step is a create_name call that has returned a name.
NameCreated == last'.op = "create_name" /\ last'.result.tag = "Name"

\* C13: at most one topic of a map owns the subject identifier of the default
\* name type and it stays the owner; a create_name call with the type omitted
\* gives the name that topic as type, and saves a topic for it only when no
\* topic of the map owned the subject identifier or the item identifier before.
C13_DefaultNameType ==
    [][ /\ \A m \in TopicMaps :
              /\ Cardinality(TopicNameTypes(topic_constructs', subject_identifiers', m)) <= 1
              /\ TopicNameTypes(topic_constructs, subject_identifiers, m)
                    \subseteq TopicNameTypes(topic_constructs', subject_identifiers', m)
        /\ NameCreated /\ last'.args[2] = None =>
              LET name == names'[last'.result.id]
                  m == topic_constructs[last'.self]
              IN  /\ IsTopic(name.type)
                  /\ topic_constructs'[name.type.id] = m
                  /\ TopicNameTypes(topic_constructs', subject_identifiers', m) = {name.type.id}
                  /\ topic_constructs' # topic_constructs <=>
                        /\ TopicNameTypes(topic_constructs, subject_identifiers, m) = {}
                        /\ \A t \in TopicsOf(m) : TopicNamePSI \notin ItemIdentifiersOf(t)
                  /\ \A other \in DOMAIN names :
                        /\ names[other] # Deleted
                        /\ names[other].topic_map = m
                        /\ names[other].type.id \in TopicNameTypes(topic_constructs, subject_identifiers, m)
                        => names[other].type = name.type ]_vars

\* A second name was created with the type omitted: no topic was saved for it
\* and it has the type of the first.
C13_Witness ==
    /\ last.op = "create_name"
    /\ last.result.tag = "Name"
    /\ last.args[2] = None
    /\ last.result.id > 1
    /\ names[1] # Deleted
    /\ names[1].type = names[last.result.id].type
    /\ TopicNameTypes(topic_constructs, subject_identifiers, names[1].topic_map) = {names[1].type.id}

\* C14: create_name adds exactly one name to the names of the topic, the new
\* name's parent is the topic; remove takes exactly that name out of the names
\* of its topic, so that their number is one less again; neither call changes
\* the names of other topics or removes a topic.
C14_NameAddedAndRemoved ==
    [][ /\ NameCreated =>
              LET name == last'.result.id
                  topic == last'.self
              IN  /\ name \notin get_names(topic, None)
                  /\ NamesOf(names', topic, None) = get_names(topic, None) \cup {name}
                  /\ Cardinality(NamesOf(names', topic, None))
                        = Cardinality(get_names(topic, None)) + 1
                  /\ names'[name].topic = topic
                  /\ \A t \in Topics \ {topic} :
                        NamesOf(names', t, None) = get_names(t, None)
                  /\ \A t \in Topics : topic_constructs'[t] = topic_constructs[t]
        /\ last'.op = "remove" =>
              LET name == last'.self
                  topic == names[name].topic
              IN  /\ name \in get_names(topic, None)
                  /\ NamesOf(names', topic, None) = get_names(topic, None) \ {name}
                  /\ Cardinality(NamesOf(names', topic, None))
                        = Cardinality(get_names(topic, None)) - 1
                  /\ \A t \in Topics \ {topic} :
                        NamesOf(names', t, None) = get_names(t, None)
                  /\ topic_constructs' = topic_constructs ]_vars

\* One of two names has been removed: the other is still a name of its topic.
C14_Witness ==
    /\ last.op = "remove"
    /\ names[last.self] = Deleted
    /\ \E name \in DOMAIN names, t \in Topics :
          names[name] # Deleted /\ get_names(t, None) = {name}

\* C20: set_value(v) with v not None makes v the value of the name, whatever
\* was set before; set_value(None) raises ModelConstraintException and leaves
\* the names as they were.
C20_SetValue ==
    [][ last'.op = "set_value" =>
          IF last'.args[1] = None
          THEN /\ last'.result = ModelConstraintException
               /\ names' = names
          ELSE /\ last'.result = None
               /\ names'[last'.self].value = last'.args[1]
               /\ \A name \in DOMAIN names \ {last'.self} : names'[name] = names[name] ]_vars

\* set_value has replaced the value of a name by another one.
C20_Witness ==
    /\ last.op = "set_value"
    /\ last.effect = "changed"
    /\ get_value(last.self) = last.args[1]

----------------------------------------------------------------------------
(* Occurrences and variants *)

\* C15: an occurrence or a variant created without a datatype has datatype
\* xsd:anyURI when its value is a Locator, and its stored value is then the
\* reference of the locator, and datatype xsd:string for any other value; a
\* datatype given is the datatype stored.
C15_DatatypeInference ==
    [][ last'.op \in {"create_occurrence", "create_variant"} =>
          LET row == last'.result.id.row
              value == IF last'.op = "create_occurrence" THEN last'.args[2]
                                                         ELSE last'.args[1]
              datatype == IF last'.op = "create_occurrence" THEN last'.args[4]
                                                            ELSE last'.args[3]
          IN  IF datatype # None THEN row.datatype = datatype.reference
              ELSE IF value.tag = "Locator"
              THEN /\ row.datatype = XSD_ANY_URI
                   /\ row.value = String(value.reference)
              ELSE /\ row.datatype = XSD_STRING
                   /\ row.value = value ]_vars

----------------------------------------------------------------------------
(* Reification *)

\* C16: get_reified returns the construct the topic reifies, of whichever of
\* the six kinds it is, and None when the topic reifies nothing.
C16_ReifiedReturned ==
    last.op = "get_reified" =>
        /\ \A t \in ReifiableTypes :
              IsConstruct(reified[t]) => last.result = reified[t]
        /\ reified = NoReified => last.result = None

\* The topic reifies a variant, the kind probed last: get_reified has returned it.
C16_Witness ==
    /\ last.op = "get_reified"
    /\ IsConstruct(reified["reified_variant"])
    /\ \A t \in ReifiableTypes \ {"reified_variant"} : reified[t] = DoesNotExist
    /\ last.result = reified["reified_variant"]

\* The probes get_reified makes: those up to the first that yields a construct.
Probed(i) ==
    \A j \in 1..(i - 1) : ~IsConstruct(reified[reifiable_types[j]])

\* C21: when a probe that get_reified makes fails for another reason than
\* DoesNotExist, the caller gets the failure, not None and not the construct
\* of a kind probed later.
C21_ProbeFailurePropagates ==
    last.op = "get_reified" =>
        \A i \in DOMAIN reifiable_types :
            (Probed(i) /\ reified[reifiable_types[i]] = DatabaseError)
            => last.result = DatabaseError

----------------------------------------------------------------------------
(* Identity resolution only adds *)

\* The rows a step adds to the three identifier tables.
BindingsAdded ==
    Cardinality(subject_identifiers' \ subject_identifiers)
    + Cardinality(subject_locators' \ subject_locators)
    + Cardinality(item_identifiers' \ item_identifiers)

\* The locator of the call is owned, in the namespace of the method called, by
\* a topic of the map called.
OwnedInNamespace(op, m, reference) ==
    \E t \in TopicsOf(m) :
        \/ op = "create_topic_by_subject_identifier" /\ reference \in SubjectIdentifiersOf(t)
        \/ op = "create_topic_by_subject_locator" /\ reference \in SubjectLocatorsOf(t)
        \/ op = "create_topic_by_item_identifier" /\ reference \in ItemIdentifiersOf(t)

\* C22: a create_topic or create_topic_by_* call deletes no topic and removes
\* or moves no identifier binding, so that the three identifier sets of every
\* topic only grow; a create_topic_by_* call adds at most one topic and at
\* most one binding, and nothing when the locator is already owned in the
\* namespace asked for; create_topic adds one topic and no binding.
C22_OnlyAdds ==
    [][ last'.op \in CreateByOps \cup {"create_topic"} =>
          /\ \A t \in Topics :
                /\ t \in DOMAIN topic_constructs'
                /\ topic_constructs'[t] = topic_constructs[t]
                /\ SubjectIdentifiersOf(t) \subseteq SubjectIdentifiersOf(t)'
                /\ SubjectLocatorsOf(t) \subseteq SubjectLocatorsOf(t)'
                /\ ItemIdentifiersOf(t) \subseteq ItemIdentifiersOf(t)'
          /\ subject_identifiers \subseteq subject_identifiers'
          /\ subject_locators \subseteq subject_locators'
          /\ item_identifiers \subseteq item_identifiers'
          /\ Len(topic_constructs') <= Len(topic_constructs) + 1
          /\ BindingsAdded <= 1
          /\ last'.op = "create_topic" =>
                /\ Len(topic_constructs') = Len(topic_constructs) + 1
                /\ BindingsAdded = 0
          /\ ( /\ last'.op \in CreateByOps
               /\ last'.args[1] # None
               /\ OwnedInNamespace(last'.op, last'.self,
                                   to_external_form(last'.args[1])) )
             => UNCHANGED db ]_vars

\* A call has bound its locator to a topic that owned it in the other
\* namespace, while a topic of the other map owns the same value: both
\* bindings made before are still there.
C22_Witness ==
    /\ last.op \in CreateByOps
    /\ last.effect = "bound"
    /\ to_external_form(last.args[1]) \in SubjectIdentifiersOf(last.result.id)
    /\ to_external_form(last.args[1]) \in ItemIdentifiersOf(last.result.id)
    /\ \E t \in Topics :
          /\ topic_constructs[t] # last.self
          /\ to_external_form(last.args[1]) \in
                SubjectIdentifiersOf(t) \cup ItemIdentifiersOf(t)

====
